---- MODULE Spec2Model ----
(***************************************************************************)
(* A model of goblet (src/src/main.rs): the stacking board game's Position *)
(* (GameState), its move generator, its static evaluator, the order on     *)
(* Scores and the minimax search tree (Node).                               *)
(*                                                                         *)
(* Four specifications share the variables below; each leaves the          *)
(* variables of the others at an idle value.                               *)
(*   Spec      - Positions reached from GameState::new() through the moves *)
(*               GameState::branch generates, each replayed by apply_move. *)
(*   SpecEval  - raw_score applied to Positions drawn from a bounded set.  *)
(*   SpecScore - Score::partial_cmp applied to triples of Scores.          *)
(*   SpecTree  - Node::new on a Position, then Node::branch calls.         *)
(***************************************************************************)
EXTENDS Integers, Sequences, FiniteSets

VARIABLES
    game,       \* Spec: the current Position (a GameState)
    parent,     \* Spec: the Position `game` was generated from
    lastMove,   \* Spec: the GameMove that led from parent to game
    replayed,   \* Spec: a copy of parent after apply_move(lastMove)
    ply,        \* Spec: number of moves played since GameState::new()
    evalPos,    \* SpecEval: the Position handed to raw_score
    evalScore,  \* SpecEval: what raw_score returned
    scores,     \* SpecScore: three Scores <<a, b, c>>
    ord,        \* SpecScore: the Orderings partial_cmp returned for them
    start,      \* SpecTree: the Position the root Node was built from
    root,       \* SpecTree: the root Node of the search tree
    prev,       \* SpecTree: the root Node as it was before the last call
    history,    \* SpecTree: the depth arguments of the calls made so far
    panicked    \* SpecTree: the last call panicked (the process is gone)

gameVars  == <<game, parent, lastMove, replayed, ply>>
evalVars  == <<evalPos, evalScore>>
scoreVars == <<scores, ord>>
treeVars  == <<start, root, prev, history, panicked>>
vars      == <<gameVars, evalVars, scoreVars, treeVars>>

(***************************************************************************)
(* Program constants.                                                      *)
(***************************************************************************)
NUM_SIZES == 4
NUM_EACH_SIZE == 3
BOARD_DIM == 4
I32_MAX == 2147483647    \* the payload of Score::Balanced is an i32
I32_MIN == (0 - I32_MAX) - 1

(***************************************************************************)
(* Bounds of the model.                                                    *)
(***************************************************************************)
MaxPly == 2          \* Spec: moves played from the starting Position
MaxBal == 2          \* SpecScore: Balanced(n) is drawn from -MaxBal .. MaxBal
MaxDepth == 3        \* SpecTree: depth argument of Node::branch
WideDepth == 2       \* SpecTree: the same, on the root of the starting Position
MaxCalls == 3        \* SpecTree: Node::branch calls made on one root

Sizes == 0 .. (NUM_SIZES - 1)
Dims  == 0 .. (BOARD_DIM - 1)
Cells == Dims \X Dims

None == "None"

(***************************************************************************)
(* enum Color and Color::other.                                            *)
(***************************************************************************)
Empty == "Empty"
White == "White"
Black == "Black"
Color == {Empty, White, Black}

other(self) == IF self = White THEN Black ELSE White

(***************************************************************************)
(* struct Stack: pieces[size] is the colour of the piece of that size.     *)
(***************************************************************************)
Stack_empty == [i \in Sizes |-> Empty]

\* The scan of Stack::top and Stack::top_color: from index i downwards.
RECURSIVE topFrom(_, _)
topFrom(pieces, i) ==
    IF i < 0 THEN 0
    ELSE IF pieces[i] # Empty THEN i + 1
    ELSE topFrom(pieces, i - 1)

top(pieces) == topFrom(pieces, NUM_SIZES - 1)

RECURSIVE topColorFrom(_, _)
topColorFrom(pieces, i) ==
    IF i < 0 THEN Empty
    ELSE IF pieces[i] # Empty THEN pieces[i]
    ELSE topColorFrom(pieces, i - 1)

top_color(pieces) == topColorFrom(pieces, NUM_SIZES - 1)

(***************************************************************************)
(* struct Board and struct GameState.                                      *)
(***************************************************************************)
Board_empty == [r \in Dims |-> [c \in Dims |-> Stack_empty]]

GameState_new ==
    [white_pieces |-> [i \in Sizes |-> NUM_EACH_SIZE],
     black_pieces |-> [i \in Sizes |-> NUM_EACH_SIZE],
     board        |-> Board_empty,
     turn         |-> White]

\* A next_turn that leaves the side to move as it is.
next_turn_stays(self) == self

\* GameState::next_turn.
next_turn(self) == [self EXCEPT !.turn = other(self.turn)]

(***************************************************************************)
(* enum GameMove.                                                          *)
(***************************************************************************)
Place(size, dest)  == [kind |-> "Place", size |-> size, dest |-> dest]
Move(source, dest) == [kind |-> "Move", source |-> source, dest |-> dest]

(***************************************************************************)
(* GameState::apply_move.  A Move writes the mover's colour into the       *)
(* destination slot indexed by the source's top and leaves the source      *)
(* stack as it is.  (The generator only returns sources with top >= 1.)    *)
(***************************************************************************)
apply_move(self, game_move) ==
    IF game_move.kind = "Move"
    THEN LET s == game_move.source
             d == game_move.dest
             slot == top(self.board[s[1]][s[2]]) - 1
         IN  next_turn([self EXCEPT !.board[d[1]][d[2]][slot] = self.turn])
    ELSE LET d == game_move.dest
         IN  next_turn([self EXCEPT !.board[d[1]][d[2]][game_move.size] = self.turn])

(***************************************************************************)
(* GameState::branch.                                                      *)
(***************************************************************************)
\* The lookup table of tops computed once (main.rs 132-144).
topsOf(self) == [r \in Dims |-> [c \in Dims |-> top(self.board[r][c])]]

available_pieces(self) ==
    IF self.turn = White THEN self.white_pieces ELSE self.black_pieces

\* enumerate() over an array of n entries: the indices in ascending order.
IndexSeq(n) == [k \in 1 .. n |-> k - 1]

\* An off-by-one in the enumeration: the last cell is never visited.
CellSeq_short == [k \in 1 .. (BOARD_DIM * BOARD_DIM - 1) |->
                    <<(k - 1) \div BOARD_DIM, (k - 1) % BOARD_DIM>>]

\* Row-major enumeration of the cells (the two nested enumerate() loops).
CellSeq == [k \in 1 .. (BOARD_DIM * BOARD_DIM) |->
              <<(k - 1) \div BOARD_DIM, (k - 1) % BOARD_DIM>>]

\* The child a Place of `size` on `dest` pushes (main.rs 153-162).
PlaceChild(self, size, dest) ==
    [move  |-> Place(size, dest),
     state |-> next_turn([self EXCEPT !.board[dest[1]][dest[2]][size] = self.turn])]

\* A Move that copies the piece and forgets to clear the source slot.
MoveChild_keeps_source(self, source, dest, source_top) ==
    LET current_top == source_top - 1
        moved == self.board[source[1]][source[2]][current_top]
        stacks == [self.board EXCEPT ![dest[1]][dest[2]][current_top] = moved]
    IN  [move  |-> Move(source, dest),
         state |-> next_turn([self EXCEPT !.board = stacks])]

\* The child a Move from `source` to `dest` pushes (main.rs 171-185).
MoveChild(self, source, dest, source_top) ==
    LET current_top == source_top - 1
        moved == self.board[source[1]][source[2]][current_top]
        stacks == [self.board EXCEPT ![dest[1]][dest[2]][current_top] = moved]
        stacks2 == [stacks EXCEPT ![source[1]][source[2]][current_top] = Empty]
    IN  [move  |-> Move(source, dest),
         state |-> next_turn([self EXCEPT !.board = stacks2])]

\* A slip in the comparison: size > dest_top where >= is meant.
PlacesAt_gt(self, tops, dest) ==
    LET avail == available_pieces(self)
        dest_top == tops[dest[1]][dest[2]]
        ok == SelectSeq(IndexSeq(NUM_SIZES),
                        LAMBDA size : avail[size] > 0 /\ size > dest_top)
    IN  [k \in 1 .. Len(ok) |-> PlaceChild(self, ok[k], dest)]

\* The Place loop for one destination (main.rs 151-164).
PlacesAt(self, tops, dest) ==
    LET avail == available_pieces(self)
        dest_top == tops[dest[1]][dest[2]]
        ok == SelectSeq(IndexSeq(NUM_SIZES),
                        LAMBDA size : avail[size] > 0 /\ size >= dest_top)
    IN  [k \in 1 .. Len(ok) |-> PlaceChild(self, ok[k], dest)]

\* A slip in the comparison: source_top >= dest_top where > is meant.
MovesAt_ge(self, tops, dest) ==
    LET dest_top == tops[dest[1]][dest[2]]
        ok == SelectSeq(CellSeq,
                        LAMBDA source :
                            /\ tops[source[1]][source[2]] >= dest_top
                            /\ tops[source[1]][source[2]] > 0
                            /\ (source[1] # dest[1] \/ source[2] # dest[2]))
    IN  [k \in 1 .. Len(ok) |->
            MoveChild(self, ok[k], dest, tops[ok[k][1]][ok[k][2]])]

\* The Move loop for one destination (main.rs 166-188).
MovesAt(self, tops, dest) ==
    LET dest_top == tops[dest[1]][dest[2]]
        ok == SelectSeq(CellSeq,
                        LAMBDA source :
                            /\ tops[source[1]][source[2]] > dest_top
                            /\ (source[1] # dest[1] \/ source[2] # dest[2]))
    IN  [k \in 1 .. Len(ok) |->
            MoveChild(self, ok[k], dest, tops[ok[k][1]][ok[k][2]])]

\* The two inner loops in the other order: Moves pushed before Places.
ChildrenAt_moves_first(self, tops, dest) ==
    IF tops[dest[1]][dest[2]] = BOARD_DIM
    THEN << >>
    ELSE MovesAt(self, tops, dest) \o PlacesAt(self, tops, dest)

\* The body of the destination loop for one cell (main.rs 148-188).
ChildrenAt(self, tops, dest) ==
    IF tops[dest[1]][dest[2]] = BOARD_DIM
    THEN << >>
    ELSE PlacesAt(self, tops, dest) \o MovesAt(self, tops, dest)

\* The destination loop over the cells lo .. hi of CellSeq (main.rs 146-190):
\* what the iterations push, in their order (the range is halved to keep
\* the evaluation shallow).
RECURSIVE branchFrom(_, _, _, _)
branchFrom(self, tops, lo, hi) ==
    IF lo > hi THEN << >>
    ELSE IF lo = hi THEN ChildrenAt(self, tops, CellSeq[lo])
    ELSE branchFrom(self, tops, lo, (lo + hi) \div 2)
         \o branchFrom(self, tops, ((lo + hi) \div 2) + 1, hi)

GameState_branch(self) ==
    \* the table of tops is computed once
    LET result(tops) == branchFrom(self, tops, 1, Len(CellSeq))
    IN  result(topsOf(self))

(***************************************************************************)
(* enum Score, Score::for_color and the order on Scores.                   *)
(***************************************************************************)
WhiteFavored == [tag |-> "WhiteFavored", n |-> 0]
BlackFavored == [tag |-> "BlackFavored", n |-> 0]
Balanced(n)  == [tag |-> "Balanced", n |-> n]

IsWinMarker(score) == score = WhiteFavored \/ score = BlackFavored

for_color(color) == IF color = White THEN WhiteFavored ELSE BlackFavored

Less    == "Less"
Equal   == "Equal"
Greater == "Greater"

\* A slip in the first arm: (_, WhiteFavored) where (_, BlackFavored) is meant.
partial_cmp_swapped(self, other_) ==
    IF self = other_ THEN Equal
    ELSE IF self = WhiteFavored \/ other_ = WhiteFavored THEN Greater
    ELSE IF self = BlackFavored \/ other_ = BlackFavored THEN Less
    ELSE IF self.n < other_.n THEN Less
    ELSE IF self.n = other_.n THEN Equal
    ELSE Greater

\* impl PartialOrd for Score: the arms of the match in their order.
partial_cmp(self, other_) ==
    IF self = other_ THEN Equal
    ELSE IF self = WhiteFavored \/ other_ = BlackFavored THEN Greater
    ELSE IF self = BlackFavored \/ other_ = WhiteFavored THEN Less
    ELSE IF self.n < other_.n THEN Less
    ELSE IF self.n = other_.n THEN Equal
    ELSE Greater

\* impl Ord for Score.
cmp(self, other_) == partial_cmp(self, other_)

(***************************************************************************)
(* GameState::raw_score.                                                   *)
(***************************************************************************)
\* A slip in the weight: only the main diagonal counts 3.
cellScore_main_only(top_colors, row, col) ==
    LET color == top_colors[row][col]
        base_score == IF row = col THEN 3 ELSE 2
        score_multiplier == IF color = White THEN 1 ELSE -1
    IN  IF color = Empty THEN 0 ELSE score_multiplier * base_score

\* What one cell adds to the heuristic sum (main.rs 232-246).
cellScore(top_colors, row, col) ==
    LET color == top_colors[row][col]
        base_score == IF row = col \/ row = BOARD_DIM - col - 1 THEN 3 ELSE 2
        score_multiplier == IF color = White THEN 1 ELSE -1
    IN  IF color = Empty THEN 0 ELSE score_multiplier * base_score

\* The heuristic sum over the cells lo .. hi of CellSeq (main.rs 228-248).
RECURSIVE scoreFrom(_, _, _)
scoreFrom(top_colors, lo, hi) ==
    IF lo > hi THEN 0
    ELSE IF lo = hi THEN cellScore(top_colors, CellSeq[lo][1], CellSeq[lo][2])
    ELSE scoreFrom(top_colors, lo, (lo + hi) \div 2)
         + scoreFrom(top_colors, ((lo + hi) \div 2) + 1, hi)

\* A slip in the last test: the main diagonal is tested twice and the
\* anti-diagonal never.
raw_score_no_anti(self) ==
    LET check_winner == other(self.turn)
        top_colors == [r \in Dims |-> [c \in Dims |-> top_color(self.board[r][c])]]
        lineWon ==
            \/ \E i \in Dims :
                  \/ \A col \in Dims : top_colors[i][col] = check_winner
                  \/ \A row \in Dims : top_colors[row][i] = check_winner
            \/ \A i \in Dims : top_colors[i][i] = check_winner
    IN  IF lineWon THEN for_color(check_winner)
        ELSE Balanced(scoreFrom(top_colors, 1, Len(CellSeq)))

raw_score(self) ==
    LET check_winner == other(self.turn)
        top_colors == [r \in Dims |-> [c \in Dims |-> top_color(self.board[r][c])]]
        lineWon ==
            \/ \E i \in Dims :
                  \/ \A col \in Dims : top_colors[i][col] = check_winner
                  \/ \A row \in Dims : top_colors[row][i] = check_winner
            \/ \A i \in Dims : top_colors[i][i] = check_winner
            \/ \A i \in Dims : top_colors[i][BOARD_DIM - i - 1] = check_winner
    IN  IF lineWon THEN for_color(check_winner)
        ELSE Balanced(scoreFrom(top_colors, 1, Len(CellSeq)))

(***************************************************************************)
(* enum NodeState and struct Node.                                         *)
(***************************************************************************)
GameStateSt(game_state) == [kind |-> "GameState", game |-> game_state]
BranchesSt(branches)    == [kind |-> "Branches", branches |-> branches]
Resolved                == [kind |-> "Resolved"]

\* Node::new.
Node_new(game_state) ==
    [score |-> raw_score(game_state),
     turn  |-> game_state.turn,
     state |-> GameStateSt(game_state)]

\* What a call that panicked leaves behind: the unwinding ends the process.
Panic == [panic |-> TRUE]
IsPanic(node) == "panic" \in DOMAIN node

\* Iterator::max and Iterator::min with Ord::cmp: None on an empty iterator,
\* else a fold with the steps below, which keeps the last of several maxima
\* and the first of several minima.  The steps are associative, so the fold
\* over lo .. hi is taken by halves to keep the evaluation shallow.
max_by(v1, v2) == IF cmp(v1, v2) = Greater THEN v1 ELSE v2
min_by(v1, v2) == IF cmp(v1, v2) = Greater THEN v2 ELSE v1

RECURSIVE maxFrom(_, _, _)
maxFrom(seq, lo, hi) ==
    IF lo = hi THEN seq[lo]
    ELSE max_by(maxFrom(seq, lo, (lo + hi) \div 2),
                maxFrom(seq, ((lo + hi) \div 2) + 1, hi))

RECURSIVE minFrom(_, _, _)
minFrom(seq, lo, hi) ==
    IF lo = hi THEN seq[lo]
    ELSE min_by(minFrom(seq, lo, (lo + hi) \div 2),
                minFrom(seq, ((lo + hi) \div 2) + 1, hi))

iter_max(seq) == IF Len(seq) = 0 THEN None ELSE maxFrom(seq, 1, Len(seq))
iter_min(seq) == IF Len(seq) = 0 THEN None ELSE minFrom(seq, 1, Len(seq))

\* A back-up that also moves the best child to the back of the list.
update_score_reorders(self) ==
    IF self.state.kind = "Branches"
    THEN LET branches == self.state.branches
             branch_scores ==
                 [k \in 1 .. Len(branches) |-> branches[k].node.score]
         IN  IF Len(branch_scores) = 0 THEN Panic
             ELSE LET optimized_score ==
                          IF self.turn = White THEN iter_max(branch_scores)
                          ELSE iter_min(branch_scores)
                      best == CHOOSE k \in 1 .. Len(branches) :
                                  /\ branch_scores[k] = optimized_score
                                  /\ \A h \in 1 .. (k - 1) :
                                        branch_scores[h] # optimized_score
                      reordered ==
                          [k \in 1 .. Len(branches) |->
                              IF k = Len(branches) THEN branches[best]
                              ELSE IF k >= best THEN branches[k + 1]
                              ELSE branches[k]]
                  IN  [score |-> optimized_score,
                       turn  |-> self.turn,
                       state |-> IF IsWinMarker(optimized_score)
                                 THEN Resolved ELSE BranchesSt(reordered)]
    ELSE self

\* A back-up that forgets the transition to Resolved.
update_score_keeps_state(self) ==
    IF self.state.kind = "Branches"
    THEN LET branch_scores ==
                 [k \in 1 .. Len(self.state.branches) |->
                     self.state.branches[k].node.score]
         IN  IF Len(branch_scores) = 0 THEN Panic
             ELSE [self EXCEPT !.score = IF self.turn = White
                                         THEN iter_max(branch_scores)
                                         ELSE iter_min(branch_scores)]
    ELSE self

\* Node::update_score: only a node in state Branches is touched; unwrap()
\* panics on the None of an empty child list.
update_score(self) ==
    IF self.state.kind = "Branches"
    THEN LET branch_scores ==
                 [k \in 1 .. Len(self.state.branches) |->
                     self.state.branches[k].node.score]
         IN  IF Len(branch_scores) = 0 THEN Panic
             ELSE \* one evaluation of the optimum
                  LET optimized_score ==
                          IF self.turn = White THEN iter_max(branch_scores)
                          ELSE iter_min(branch_scores)
                  IN  [score |-> optimized_score,
                       turn  |-> self.turn,
                       state |-> IF IsWinMarker(optimized_score)
                                 THEN Resolved ELSE self.state]
    ELSE self

AnyPanic(branches) == \E k \in 1 .. Len(branches) : IsPanic(branches[k].node)

\* A slip in the depth test of the first arm: depth > 0 where depth > 1 is
\* meant, so a call with depth d builds d + 1 levels.
RECURSIVE Node_branch_off_by_one(_, _)
Node_branch_off_by_one(self, depth) ==
    CASE self.state.kind = "GameState" ->
            LET branch_states == GameState_branch(self.state.game)
                fresh == [k \in 1 .. Len(branch_states) |->
                            [move |-> branch_states[k].move,
                             node |-> [score |-> raw_score(branch_states[k].state),
                                       turn  |-> branch_states[k].state.turn,
                                       state |-> GameStateSt(branch_states[k].state)]]]
                branches ==
                    IF depth > 0
                    THEN [k \in 1 .. Len(fresh) |->
                            [move |-> fresh[k].move,
                             node |-> Node_branch_off_by_one(fresh[k].node, depth - 1)]]
                    ELSE fresh
                updated == update_score(self)
            IN  IF AnyPanic(branches) \/ IsPanic(updated) THEN Panic
                ELSE [updated EXCEPT !.state = BranchesSt(branches)]
      [] self.state.kind = "Branches" ->
            IF depth = 1 THEN self
            ELSE LET branches ==
                         [k \in 1 .. Len(self.state.branches) |->
                             [move |-> self.state.branches[k].move,
                              node |-> Node_branch_off_by_one(self.state.branches[k].node,
                                                   depth - 1)]]
                 IN  IF AnyPanic(branches) THEN Panic
                     ELSE update_score([self EXCEPT !.state = BranchesSt(branches)])
      [] OTHER -> self

\* A slip in the construction of a child node: it takes the parent's turn
\* where the child Position's turn is meant.
RECURSIVE Node_branch_parent_turn(_, _)
Node_branch_parent_turn(self, depth) ==
    CASE self.state.kind = "GameState" ->
            LET branch_states == GameState_branch(self.state.game)
                fresh == [k \in 1 .. Len(branch_states) |->
                            [move |-> branch_states[k].move,
                             node |-> [score |-> raw_score(branch_states[k].state),
                                       turn  |-> self.turn,
                                       state |-> GameStateSt(branch_states[k].state)]]]
                branches ==
                    IF depth > 1
                    THEN [k \in 1 .. Len(fresh) |->
                            [move |-> fresh[k].move,
                             node |-> Node_branch_parent_turn(fresh[k].node, depth - 1)]]
                    ELSE fresh
                updated == update_score(self)
            IN  IF AnyPanic(branches) \/ IsPanic(updated) THEN Panic
                ELSE [updated EXCEPT !.state = BranchesSt(branches)]
      [] self.state.kind = "Branches" ->
            IF depth = 1 THEN self
            ELSE LET branches ==
                         [k \in 1 .. Len(self.state.branches) |->
                             [move |-> self.state.branches[k].move,
                              node |-> Node_branch_parent_turn(self.state.branches[k].node,
                                                   depth - 1)]]
                 IN  IF AnyPanic(branches) THEN Panic
                     ELSE update_score([self EXCEPT !.state = BranchesSt(branches)])
      [] OTHER -> self

\* Node::branch.  In the GameState arm update_score runs while self.state is
\* still the GameState variant, and only then is the state replaced.
RECURSIVE Node_branch(_, _)
Node_branch(self, depth) ==
    CASE self.state.kind = "GameState" ->
            LET branch_states == GameState_branch(self.state.game)
                fresh == [k \in 1 .. Len(branch_states) |->
                            [move |-> branch_states[k].move,
                             node |-> [score |-> raw_score(branch_states[k].state),
                                       turn  |-> branch_states[k].state.turn,
                                       state |-> GameStateSt(branch_states[k].state)]]]
                branches ==
                    IF depth > 1
                    THEN [k \in 1 .. Len(fresh) |->
                            [move |-> fresh[k].move,
                             node |-> Node_branch(fresh[k].node, depth - 1)]]
                    ELSE fresh
                updated == update_score(self)
            IN  IF AnyPanic(branches) \/ IsPanic(updated) THEN Panic
                ELSE [updated EXCEPT !.state = BranchesSt(branches)]
      [] self.state.kind = "Branches" ->
            IF depth = 1 THEN self
            ELSE LET branches ==
                         [k \in 1 .. Len(self.state.branches) |->
                             [move |-> self.state.branches[k].move,
                              node |-> Node_branch(self.state.branches[k].node,
                                                   depth - 1)]]
                 IN  IF AnyPanic(branches) THEN Panic
                     ELSE update_score([self EXCEPT !.state = BranchesSt(branches)])
      [] OTHER -> self

(***************************************************************************)
(* Spec: play from GameState::new() through the generated moves.           *)
(***************************************************************************)
GameIdle  == game = None /\ parent = None /\ lastMove = None
             /\ replayed = None /\ ply = 0
EvalIdle  == evalPos = None /\ evalScore = None
ScoreIdle == scores = None /\ ord = None
TreeIdle  == start = None /\ root = None /\ prev = None /\ history = << >>
             /\ panicked = FALSE

Init ==
    /\ game = GameState_new
    /\ parent = None
    /\ lastMove = None
    /\ replayed = None
    /\ ply = 0
    /\ EvalIdle /\ ScoreIdle /\ TreeIdle

\* One (move, child) pair of game.branch() is taken: the child becomes the
\* current Position, and the move is replayed on a copy of the parent.
Play ==
    /\ ply < MaxPly
    /\ \E children \in {GameState_branch(game)} :
          \E i \in 1 .. Len(children) :
              /\ game' = children[i].state
              /\ lastMove' = children[i].move
              /\ replayed' = apply_move(game, children[i].move)
    /\ parent' = game
    /\ ply' = ply + 1
    /\ UNCHANGED <<evalVars, scoreVars, treeVars>>

Next == Play

Spec == Init /\ [][Next]_vars

(***************************************************************************)
(* Properties of the Position model and the move generator (Spec).         *)
(***************************************************************************)
reserve(self, color) ==
    IF color = White THEN self.white_pieces ELSE self.black_pieces

OnBoard(self, color, size) ==
    Cardinality({cell \in Cells : self.board[cell[1]][cell[2]][size] = color})

MovesOf(children) == {children[i].move : i \in 1 .. Len(children)}

\* C5: in every Position reached through generated moves, for each player
\* and each size, the pieces of that player and size on the board plus the
\* player's reserve count of that size make NUM_EACH_SIZE, and every reserve
\* count lies in 0 .. NUM_EACH_SIZE.
C5_InventoryConserved ==
    \A color \in {White, Black} : \A size \in Sizes :
        /\ OnBoard(game, color, size) + reserve(game, color)[size] = NUM_EACH_SIZE
        /\ reserve(game, color)[size] \in 0 .. NUM_EACH_SIZE

\* C6: replaying a generated move on a copy of its source Position with
\* apply_move gives the Position the generator reported as the child.
C6_ReplayEqualsChild ==
    ply > 0 => replayed = game

\* The legal moves as the data model states them.
IsLegalPlace(self, size, dest) ==
    /\ top(self.board[dest[1]][dest[2]]) < NUM_SIZES
    /\ reserve(self, self.turn)[size] > 0
    /\ size >= top(self.board[dest[1]][dest[2]])

IsLegalMove(self, source, dest) ==
    /\ source # dest
    /\ top(self.board[source[1]][source[2]]) > top(self.board[dest[1]][dest[2]])

LegalMoves(self) ==
    {Place(size, dest) : size \in Sizes, dest \in Cells} \cup
    {Move(source, dest) : source \in Cells, dest \in Cells}

\* C9: branch() returns exactly the legal moves of the side to move: a Place
\* iff the destination is not full, the mover holds the size in reserve and
\* size >= top(dest); a Move iff source # dest and top(source) > top(dest).
C9_GeneratorExact ==
    \A moves \in {MovesOf(GameState_branch(game))} :
        /\ moves \subseteq LegalMoves(game)
        /\ \A dest \in Cells :
              /\ \A size \in Sizes :
                    Place(size, dest) \in moves <=> IsLegalPlace(game, size, dest)
              /\ \A source \in Cells :
                    Move(source, dest) \in moves <=> IsLegalMove(game, source, dest)

\* C9's case: the generator returned a Place and a Move, skipped a full
\* destination, and refused a Move onto an equal or taller stack.
C9_Witness ==
    /\ ply = MaxPly
    /\ \E m \in MovesOf(GameState_branch(game)) : m.kind = "Place"
    /\ \E m \in MovesOf(GameState_branch(game)) : m.kind = "Move"
    /\ \E dest \in Cells : top(game.board[dest[1]][dest[2]]) = NUM_SIZES
    /\ \E source \in Cells : \E dest \in Cells :
          /\ source # dest
          /\ top(game.board[source[1]][source[2]]) > 0
          /\ top(game.board[source[1]][source[2]])
                 <= top(game.board[dest[1]][dest[2]])

\* The place of a move in the ordering contract of the generator.
CellIndex(cell) == cell[1] * BOARD_DIM + cell[2]

OrderKey(m) ==
    IF m.kind = "Place"
    THEN <<CellIndex(m.dest), 0, m.size>>
    ELSE <<CellIndex(m.dest), 1, CellIndex(m.source)>>

KeyBefore(a, b) ==
    \/ a[1] < b[1]
    \/ a[1] = b[1] /\ a[2] < b[2]
    \/ a[1] = b[1] /\ a[2] = b[2] /\ a[3] < b[3]

\* C10: children are listed by destination in row-major order; for one
\* destination the Places come first in ascending size, then the Moves in
\* row-major order of the source.
C10_ChildOrder ==
    \A children \in {GameState_branch(game)} :
        \A i \in 1 .. (Len(children) - 1) :
            KeyBefore(OrderKey(children[i].move), OrderKey(children[i + 1].move))

\* C10's case: one destination has two Places and two Moves in the list.
C10_Witness ==
    \E children \in {GameState_branch(game)} :
        \E i \in 1 .. (Len(children) - 3) :
            /\ children[i].move.kind = "Place"
            /\ children[i + 1].move.kind = "Place"
            /\ children[i + 2].move.kind = "Move"
            /\ children[i + 3].move.kind = "Move"
            /\ \A k \in 1 .. 3 : children[i + k].move.dest = children[i].move.dest

\* The boards of the two small cases.
Occupied(self) ==
    {<<cell, size>> \in Cells \X Sizes : self.board[cell[1]][cell[2]][size] # Empty}

ReservedSizes(self) == {size \in Sizes : reserve(self, self.turn)[size] > 0}

\* C11: on the empty board branch() returns exactly (number of cells) x
\* (number of sizes the mover holds in reserve) moves, all of them Places;
\* on a board whose only piece is one piece of size 0, every other cell is a
\* Place destination for every reserved size and the occupied cell is a Move
\* source to every other cell.
C11_SmallBoardCounts ==
    \A children \in {GameState_branch(game)} :
        /\ Occupied(game) = {} =>
              /\ Len(children) = Cardinality(Cells) * Cardinality(ReservedSizes(game))
              /\ Cardinality(MovesOf(children)) = Len(children)
              /\ \A m \in MovesOf(children) : m.kind = "Place"
        /\ \A occ \in Cells :
              Occupied(game) = {<<occ, 0>>} =>
                  \A cell \in Cells \ {occ} :
                      /\ \A size \in ReservedSizes(game) :
                            Place(size, cell) \in MovesOf(children)
                      /\ Move(occ, cell) \in MovesOf(children)

\* C11's case: a Position whose only piece is one piece of size 0, after a
\* generated Move has relocated it.
C11_Witness ==
    /\ ply = MaxPly
    /\ lastMove.kind = "Move"
    /\ \E occ \in Cells : Occupied(game) = {<<occ, 0>>}
    /\ Len(GameState_branch(game)) > Cardinality(Cells)

(***************************************************************************)
(* SpecScore: partial_cmp on every pair of three Scores.                   *)
(***************************************************************************)
ScoreInputs ==
    {WhiteFavored, BlackFavored} \cup
    {Balanced(n) : n \in (-MaxBal .. MaxBal) \cup {I32_MIN, I32_MAX}}

NoOrd == [ab |-> None, ba |-> None, bc |-> None, ac |-> None, aa |-> None]

InitScore ==
    /\ scores \in ScoreInputs \X ScoreInputs \X ScoreInputs
    /\ ord = NoOrd
    /\ GameIdle /\ EvalIdle /\ TreeIdle

Compare ==
    /\ ord = NoOrd
    /\ ord' = [ab |-> partial_cmp(scores[1], scores[2]),
               ba |-> partial_cmp(scores[2], scores[1]),
               bc |-> partial_cmp(scores[2], scores[3]),
               ac |-> partial_cmp(scores[1], scores[3]),
               aa |-> partial_cmp(scores[1], scores[1])]
    /\ UNCHANGED <<scores, gameVars, evalVars, treeVars>>

NextScore == Compare

SpecScore == InitScore /\ [][NextScore]_vars

\* C8: the order on Scores is total: a pair compares Equal exactly when the
\* two Scores are the same, a < b exactly when b > a, < is transitive,
\* BlackFavored < Balanced(n) < WhiteFavored, Balanced(a) and Balanced(b)
\* compare as the integers a and b, and a win-marker equals only itself.
C8_TotalOrder ==
    ord # NoOrd =>
        LET a == scores[1]
            b == scores[2]
            c == scores[3]
        IN  /\ ord.aa = Equal
            /\ ord.ab \in {Less, Equal, Greater}
            /\ (ord.ab = Equal) <=> (a = b)
            /\ (ord.ab = Less) <=> (ord.ba = Greater)
            /\ (ord.ab = Greater) <=> (ord.ba = Less)
            /\ (ord.ab = Less /\ ord.bc = Less) => ord.ac = Less
            /\ (ord.ab # Greater /\ ord.bc # Greater) => ord.ac # Greater
            /\ (a = BlackFavored /\ b.tag = "Balanced") => ord.ab = Less
            /\ (a.tag = "Balanced" /\ b = WhiteFavored) => ord.ab = Less
            /\ (a = BlackFavored /\ b = WhiteFavored) => ord.ab = Less
            /\ (a.tag = "Balanced" /\ b.tag = "Balanced") =>
                  /\ (ord.ab = Less) <=> (a.n < b.n)
                  /\ (ord.ab = Equal) <=> (a.n = b.n)
                  /\ (ord.ab = Greater) <=> (a.n > b.n)
            /\ (IsWinMarker(a) /\ ord.ab = Equal) => b = a

\* C8's case: the three kinds of Score have been compared with each other.
C8_Witness ==
    /\ ord # NoOrd
    /\ scores[1] = BlackFavored
    /\ scores[2] = Balanced(I32_MIN)
    /\ scores[3] = WhiteFavored
    /\ ord.ab = Less /\ ord.bc = Less /\ ord.ac = Less

(***************************************************************************)
(* SpecEval: raw_score on Positions drawn from a bounded set.  A Position  *)
(* of the set has one line (a row, a column or a diagonal) whose stacks    *)
(* all show the same colour on top of a buried piece of the other colour,  *)
(* or no such line, over one of a few backgrounds, with either side to     *)
(* move.                                                                   *)
(***************************************************************************)
Lines ==
    {{<<i, col>> : col \in Dims} : i \in Dims} \cup
    {{<<row, i>> : row \in Dims} : i \in Dims} \cup
    {{<<i, i>> : i \in Dims}, {<<i, BOARD_DIM - i - 1>> : i \in Dims}}

HasLine(self, color) ==
    \E line \in Lines :
        \A cell \in line : top_color(self.board[cell[1]][cell[2]]) = color

Backgrounds == {"empty", "white", "black", "mixed"}

BackgroundStack(bg, r, c) ==
    CASE bg = "empty" -> Stack_empty
      [] bg = "white" -> [Stack_empty EXCEPT ![1] = White]
      [] bg = "black" -> [Stack_empty EXCEPT ![1] = Black]
      [] bg = "mixed" -> IF (r + (c \div 2)) % 2 = 0
                         THEN [Stack_empty EXCEPT ![0] = Black, ![3] = White]
                         ELSE [Stack_empty EXCEPT ![0] = White, ![2] = Black]

LineStack(color) == [Stack_empty EXCEPT ![0] = other(color), ![2] = color]

EvalPosition(line, color, bg, turn) ==
    [white_pieces |-> [i \in Sizes |-> NUM_EACH_SIZE],
     black_pieces |-> [i \in Sizes |-> NUM_EACH_SIZE],
     board |-> [r \in Dims |-> [c \in Dims |->
                  IF <<r, c>> \in line THEN LineStack(color)
                  ELSE BackgroundStack(bg, r, c)]],
     turn |-> turn]

EvalInputs ==
    {EvalPosition(line, color, bg, turn) :
        line \in Lines \cup {{}}, color \in {White, Black},
        bg \in Backgrounds, turn \in {White, Black}}

NoScore == [tag |-> None, n |-> 0]

InitEval ==
    /\ evalPos \in EvalInputs
    /\ evalScore = NoScore
    /\ GameIdle /\ ScoreIdle /\ TreeIdle

Evaluate ==
    /\ evalScore = NoScore
    /\ evalScore' = raw_score(evalPos)
    /\ UNCHANGED <<evalPos, gameVars, scoreVars, treeVars>>

NextEval == Evaluate

SpecEval == InitEval /\ [][NextEval]_vars

\* C7 as stated: whenever a row, a column or a diagonal shows only colour C
\* on top, raw_score returns C's win-marker, whichever side is to move.
C7_AnyLineWins ==
    evalScore # NoScore =>
        \A color \in {White, Black} :
            HasLine(evalPos, color) => evalScore = for_color(color)

\* C7 amended: whenever a row, a column or a diagonal shows only colour C on
\* top and C is the side that just moved (the opposite of the side to move),
\* raw_score returns C's win-marker, whatever the other cells contain.
C7_MoverLineWins ==
    evalScore # NoScore =>
        \A color \in {White, Black} :
            (HasLine(evalPos, color) /\ color = other(evalPos.turn))
                => evalScore = for_color(color)

\* C7's case: the anti-diagonal belongs to the side that just moved, the
\* side to move owns a line too, and raw_score has returned.
C7_Witness ==
    /\ evalScore # NoScore
    /\ \A i \in Dims :
          top_color(evalPos.board[i][BOARD_DIM - i - 1]) = other(evalPos.turn)
    /\ HasLine(evalPos, evalPos.turn)
    /\ evalScore = for_color(other(evalPos.turn))

(***************************************************************************)
(* SpecTree: a root Node is built from a Position and Node::branch is      *)
(* called on it with depths >= 1.  The roots are the starting Position and *)
(* Positions late in a game, where every stack but one is full, so that a  *)
(* Position has 16 legal moves and three plies stay small.                 *)
(***************************************************************************)
\* A board whose stacks hold a piece of size 2 and a piece of size 3, of the
\* colours below[r][c] and above[r][c]; no piece of size 3 where above is
\* Empty.
LateBoard(below, above) ==
    [r \in Dims |-> [c \in Dims |->
        [Stack_empty EXCEPT ![2] = below[r + 1][c + 1], ![3] = above[r + 1][c + 1]]]]

LatePosition(below, above, turn) ==
    [white_pieces |-> [i \in Sizes |-> NUM_EACH_SIZE],
     black_pieces |-> [i \in Sizes |-> NUM_EACH_SIZE],
     board |-> LateBoard(below, above),
     turn  |-> turn]

Quads == <<
    <<White, White, Black, Black>>,
    <<Black, Black, White, White>>,
    <<White, White, Black, Black>>,
    <<Black, Black, White, White>> >>

\* No line; the stack at (0, 0) is not full.
QuietAbove == [Quads EXCEPT ![1][1] = Empty]

\* No line; a White piece on (0, 0) completes row 0.
NearWinBelow == [Quads EXCEPT ![1][1] = Black]
NearWinAbove == [Quads EXCEPT ![1][1] = Empty, ![1][3] = White, ![1][4] = White]

\* Row 0 is White; the stack at (3, 3) is not full.
WonAbove == [Quads EXCEPT ![1][3] = White, ![1][4] = White, ![4][4] = Empty]

\* Every stack is full: no legal move.
FullAbove == Quads

RootInputs ==
    {GameState_new} \cup
    {LatePosition(Quads, QuietAbove, turn) : turn \in {White, Black}} \cup
    {LatePosition(NearWinBelow, NearWinAbove, turn) : turn \in {White, Black}} \cup
    {LatePosition(Quads, WonAbove, turn) : turn \in {White, Black}} \cup
    {LatePosition(Quads, FullAbove, turn) : turn \in {White, Black}}

DepthCap(position) == IF position = GameState_new THEN WideDepth ELSE MaxDepth

NoNode == [score |-> NoScore, turn |-> Empty, state |-> [kind |-> None]]

InitTree ==
    /\ start \in RootInputs
    /\ root = Node_new(start)
    /\ prev = NoNode
    /\ history = << >>
    /\ panicked = FALSE
    /\ GameIdle /\ EvalIdle /\ ScoreIdle

\* One call root.branch(depth).  A panic ends the process: nothing follows.
Expand ==
    /\ ~panicked
    /\ Len(history) < MaxCalls
    /\ \E depth \in 1 .. DepthCap(start) :
          \E result \in {Node_branch(root, depth)} :
              /\ history' = Append(history, depth)
              /\ prev' = root
              /\ IF IsPanic(result)
                 THEN panicked' = TRUE /\ root' = root
                 ELSE panicked' = FALSE /\ root' = result
    /\ UNCHANGED <<start, gameVars, evalVars, scoreVars>>

NextTree == Expand

SpecTree == InitTree /\ [][NextTree]_vars

(***************************************************************************)
(* Properties of the search tree (SpecTree).                               *)
(***************************************************************************)
\* The order on Scores as section 3 of the specification states it.
Tier(score) ==
    CASE score = BlackFavored -> 0
      [] score = WhiteFavored -> 2
      [] OTHER -> 1

ScoreLeq(a, b) == Tier(a) < Tier(b) \/ (Tier(a) = Tier(b) /\ a.n <= b.n)

\* The best of a non-empty set of Scores for the side to move.
Optimum(turn, set) ==
    IF turn = White
    THEN CHOOSE m \in set : \A x \in set : ScoreLeq(x, m)
    ELSE CHOOSE m \in set : \A x \in set : ScoreLeq(m, x)

ChildScores(node) ==
    {node.state.branches[k].node.score : k \in 1 .. Len(node.state.branches)}

\* The minimax value of the static evaluations d plies below a Position.
RECURSIVE Minimax(_, _)
Minimax(position, d) ==
    IF d = 0 THEN raw_score(position)
    ELSE LET values == {Minimax(pair.state, d - 1) :
                           pair \in {GameState_branch(position)[k] :
                                       k \in 1 .. Len(GameState_branch(position))}}
         IN  IF values = {} THEN raw_score(position)
             ELSE Optimum(position.turn, values)

Called == Len(history) > 0 /\ ~panicked
LastDepth == history[Len(history)]

\* C1: when a call with depth >= 1 returns on a root that was an unexpanded
\* leaf with a legal move, the root's score is the maximum of its children's
\* scores if White is to move at the root and the minimum if Black is; after
\* branch(2) on the fresh root of the starting Position the root's score is
\* the 2-ply minimax value.
C1_LeafBackedUp ==
    /\ (Called /\ prev.state.kind = "GameState" /\ root.state.kind = "Branches"
          /\ Len(root.state.branches) > 0)
          => root.score = Optimum(root.turn, ChildScores(root))
    /\ (Called /\ start = GameState_new /\ history = <<2>>)
          => root.score = Minimax(start, 2)

\* Every node of `before` that `after` still holds has kept its score.
RECURSIVE SameScores(_, _)
SameScores(before, after) ==
    /\ after.score = before.score
    /\ (before.state.kind = "Branches" /\ after.state.kind = "Branches") =>
          /\ Len(after.state.branches) = Len(before.state.branches)
          /\ \A k \in 1 .. Len(before.state.branches) :
                SameScores(before.state.branches[k].node,
                           after.state.branches[k].node)

\* C2: after the tree was built by one call with depth d, a call with a
\* depth d' < d leaves the score of every node unchanged; a call with depth
\* 1 on an expanded root changes nothing at all.
C2_SmallerDepthNoOp ==
    /\ (Called /\ Len(history) = 2 /\ history[2] < history[1])
          => SameScores(prev, root)
    /\ (Called /\ LastDepth = 1 /\ prev.state.kind # "GameState")
          => root = prev

\* Every Resolved node of the tree carries a win-marker.
RECURSIVE ResolvedHaveMarker(_)
ResolvedHaveMarker(node) ==
    /\ node.state.kind = "Resolved" => IsWinMarker(node.score)
    /\ node.state.kind = "Branches" =>
          \A k \in 1 .. Len(node.state.branches) :
              ResolvedHaveMarker(node.state.branches[k].node)

\* `before` was called with `depth` and became `after`: where the call backed
\* a score up (a node in state Branches, depth > 1), a win-marker score
\* means Resolved; where the node was Resolved, nothing changed.
RECURSIVE BackUpResolves(_, _, _)
BackUpResolves(before, after, depth) ==
    /\ before.state.kind = "Resolved" => after = before
    /\ (before.state.kind = "Branches" /\ depth > 1) =>
          /\ IsWinMarker(after.score) => after.state.kind = "Resolved"
          /\ after.state.kind = "Branches" =>
                \A k \in 1 .. Len(before.state.branches) :
                    BackUpResolves(before.state.branches[k].node,
                                   after.state.branches[k].node, depth - 1)

\* C3: a back-up that gives a node a win-marker score makes the node
\* Resolved; a Resolved node is left as it is by every later call, whatever
\* the depth; the score of every Resolved node is a win-marker.
C3_ResolvedAbsorbing ==
    /\ ~panicked => ResolvedHaveMarker(root)
    /\ Called => BackUpResolves(prev, root, LastDepth)

\* C3's case: a back-up made the root Resolved, and a later call with the
\* largest depth has been made on it.
C3_Witness ==
    /\ Called
    /\ Len(history) = MaxCalls
    /\ LastDepth = MaxDepth
    /\ prev.state.kind = "Resolved"
    /\ root.state.kind = "Resolved"
    /\ IsWinMarker(root.score)
    /\ ~IsWinMarker(raw_score(start))

\* C4: a call on an unexpanded leaf whose static evaluation is a win-marker
\* makes it Resolved without generating children, and the leaf keeps that
\* score through every later call.
C4_WonLeafResolved ==
    (Called /\ IsWinMarker(raw_score(start))) =>
        /\ root.state.kind = "Resolved"
        /\ root.score = raw_score(start)

\* The first call, with depth 1, on the root of the starting Position.
FirstExpandOfStart ==
    /\ start = GameState_new
    /\ history = <<1>>
    /\ ~panicked

ChildMoves(node) ==
    {node.state.branches[k].move : k \in 1 .. Len(node.state.branches)}

\* C12 as stated: after expand(root, 1) on the root of the starting Position
\* the root has exactly 48 children, all of them Place moves.
C12_FortyEightChildren ==
    FirstExpandOfStart =>
        /\ root.state.kind = "Branches"
        /\ Len(root.state.branches) = 48
        /\ \A m \in ChildMoves(root) : m.kind = "Place"

\* C12, amended: after expand(root, 1) on the root of the starting Position
\* the root has exactly BOARD_DIM * BOARD_DIM * NUM_SIZES = 64 children, one
\* per cell and size, all of them Place moves and none a Move.
C12_SixtyFourChildren ==
    FirstExpandOfStart =>
        /\ root.state.kind = "Branches"
        /\ Len(root.state.branches) = BOARD_DIM * BOARD_DIM * NUM_SIZES
        /\ ChildMoves(root) = {Place(size, cell) : size \in Sizes, cell \in Cells}
        /\ \A m \in ChildMoves(root) : m.kind = "Place"

\* C12's case: the starting root after its first call, with depth 1.
C12_Witness ==
    /\ FirstExpandOfStart
    /\ prev = Node_new(GameState_new)
    /\ root.state.kind = "Branches"
    /\ Len(root.state.branches) > 0

\* C13: for a root whose Position has no legal move (every stack full),
\* every sequence of calls with depths >= 1 completes without a panic and
\* leaves the root with an empty child list and its score equal to its own
\* static evaluation.
C13_NoMovesDefined ==
    (GameState_branch(start) = << >> /\ Len(history) > 0) =>
        /\ ~panicked
        /\ root.state = BranchesSt(<< >>)
        /\ root.score = raw_score(start)

\* The height of a tree: the longest path from the node to a generated node.
RECURSIVE HeightFrom(_, _, _)
RECURSIVE Height(_)
Height(node) ==
    IF node.state.kind = "Branches" /\ Len(node.state.branches) > 0
    THEN 1 + HeightFrom(node.state.branches, 1, Len(node.state.branches))
    ELSE 0

HeightFrom(branches, lo, hi) ==
    IF lo = hi THEN Height(branches[lo].node)
    ELSE LET mid == (lo + hi) \div 2
             a == HeightFrom(branches, lo, mid)
             b == HeightFrom(branches, mid + 1, hi)
         IN  IF a >= b THEN a ELSE b

MaxRequested ==
    CHOOSE d \in {history[k] : k \in 1 .. Len(history)} :
        \A k \in 1 .. Len(history) : history[k] <= d

\* C14: after every finite sequence of calls expand(root, d_i), d_i >= 1, on
\* a fresh root, each call has returned a tree and the height of the tree
\* does not exceed the largest d_i requested so far.
C14_HeightBounded ==
    /\ Height(root) <= (IF history = << >> THEN 0 ELSE MaxRequested)
    /\ (Called /\ prev.state.kind = "GameState" /\ GameState_branch(start) # << >>)
          => Height(root) = LastDepth

\* C14's case: a sequence of calls of growing depth, the tree as high as the
\* largest depth asked for.
C14_Witness ==
    /\ Called
    /\ Len(history) = MaxCalls
    /\ history[1] < MaxRequested
    /\ LastDepth < MaxRequested
    /\ Height(root) = MaxRequested
    /\ MaxRequested = MaxDepth

\* C15: after expand(node, 1) on an unexpanded leaf, every child is an
\* unexpanded leaf wrapping the child Position the generator returned, in
\* the generator's order and under the generator's move; its score is
\* raw_score of that Position and its turn is that Position's side to move.
C15_FrontierStatic ==
    (Called /\ prev.state.kind = "GameState" /\ LastDepth = 1) =>
        \A generated \in {GameState_branch(prev.state.game)} :
            /\ root.state.kind = "Branches"
            /\ Len(root.state.branches) = Len(generated)
            /\ \A k \in 1 .. Len(generated) :
                  LET child == root.state.branches[k].node
                      position == generated[k].state
                  IN  /\ root.state.branches[k].move = generated[k].move
                      /\ child.state = GameStateSt(position)
                      /\ child.score = raw_score(position)
                      /\ child.turn = position.turn
                      /\ child.turn = other(prev.turn)

\* C15's case: a first call with depth 1 on a leaf with legal moves, among
\* whose children one carries a win-marker and one a heuristic score.
C15_Witness ==
    /\ Called /\ prev.state.kind = "GameState" /\ LastDepth = 1
    /\ root.state.kind = "Branches"
    /\ \E k \in 1 .. Len(root.state.branches) :
          IsWinMarker(root.state.branches[k].node.score)
    /\ \E k \in 1 .. Len(root.state.branches) :
          ~IsWinMarker(root.state.branches[k].node.score)

\* What one call branch(depth) may do to a node; depth 0 stands for a node
\* the call does not reach.  The node keeps its turn.  A node not reached and
\* a Resolved node are left as they are.  An expanded node is left as it is
\* at depth 1; at a larger depth it stays expanded, with the same moves in
\* the same order and every child changed only as a call of depth - 1 may
\* change it, or it becomes Resolved.  An unexpanded leaf becomes expanded,
\* its moves the generator's list and its children changed from the fresh
\* leaves only as a call of depth - 1 may change them.
RECURSIVE Frame(_, _, _)
Frame(before, after, depth) ==
    IF depth = 0 \/ before.state.kind = "Resolved" THEN after = before
    ELSE
    /\ after.turn = before.turn
    /\ CASE before.state.kind = "Branches" ->
              /\ after.state.kind \in {"Branches", "Resolved"}
              /\ depth = 1 => after = before
              /\ after.state.kind = "Branches" =>
                    /\ Len(after.state.branches) = Len(before.state.branches)
                    /\ \A k \in 1 .. Len(before.state.branches) :
                          /\ after.state.branches[k].move =
                                before.state.branches[k].move
                          /\ Frame(before.state.branches[k].node,
                                   after.state.branches[k].node, depth - 1)
         [] OTHER ->
              /\ after.state.kind = "Branches"
              /\ \A generated \in {GameState_branch(before.state.game)} :
                    /\ Len(after.state.branches) = Len(generated)
                    /\ \A k \in 1 .. Len(generated) :
                          /\ after.state.branches[k].move = generated[k].move
                          /\ Frame(Node_new(generated[k].state),
                                   after.state.branches[k].node, depth - 1)

\* C16: a call never changes an unexpanded leaf it does not expand; on an
\* already expanded node it never regenerates, reorders, adds or removes
\* entries of the (move, child) list; the only changes to a node are
\* leaf -> expanded, expanded -> Resolved and a score update; no node returns
\* to the unexpanded-leaf state.
C16_ExpandFrame ==
    Called => Frame(prev, root, LastDepth)

\* C16's case: a call of depth >= 2 on an expanded root that stays expanded
\* with a new score, over children the call left as they were.
C16_Witness ==
    /\ Called
    /\ Len(history) > 1
    /\ LastDepth > 1
    /\ prev.state.kind = "Branches"
    /\ root.state.kind = "Branches"
    /\ root.score # prev.score
    /\ root.state.branches = prev.state.branches
    /\ \E k \in 1 .. Len(root.state.branches) :
          /\ root.state.branches[k].node.state.kind = "Branches"
          /\ \E h \in 1 .. Len(root.state.branches[k].node.state.branches) :
                root.state.branches[k].node.state.branches[h].node.state.kind
                    = "GameState"

\* Along every path of a tree the nodes' turn fields alternate.
RECURSIVE TurnsAlternate(_)
TurnsAlternate(node) ==
    /\ node.turn \in {White, Black}
    /\ node.state.kind = "GameState" => node.state.game.turn = node.turn
    /\ node.state.kind = "Branches" =>
          \A k \in 1 .. Len(node.state.branches) :
              /\ node.state.branches[k].node.turn = other(node.turn)
              /\ TurnsAlternate(node.state.branches[k].node)

\* C17: in every Position reached the side to move is White or Black; every
\* child branch() returns and every Position apply_move produces has the
\* turn opposite to the turn before; along every path of the tree grown
\* from the Position the nodes' turn fields alternate.
C17_TurnFlips ==
    /\ game.turn \in {White, Black}
    /\ ply > 0 =>
          /\ game.turn = other(parent.turn)
          /\ replayed.turn = other(parent.turn)
          /\ other(game.turn) = parent.turn
    /\ \A children \in {GameState_branch(game)} :
          \A i \in 1 .. Len(children) :
              /\ children[i].state.turn = other(game.turn)
              /\ apply_move(game, children[i].move).turn = other(game.turn)
    /\ TurnsAlternate(Node_branch(Node_new(game), IF ply = 0 THEN WideDepth ELSE 1))

\* C17's case: two moves played, one of them a Move, the turn back where it
\* started.
C17_Witness ==
    /\ ply = MaxPly
    /\ lastMove.kind = "Move"
    /\ replayed.turn = other(parent.turn)
    /\ game.turn = GameState_new.turn

\* The heuristic sum as the rule states it: 3 for each cell of the main or
\* the anti-diagonal and 2 for each other cell, counted + for a White top
\* and - for a Black top.
DiagonalCells ==
    {cell \in Cells : cell[1] = cell[2] \/ cell[1] + cell[2] = BOARD_DIM - 1}

TopCells(self, color, cells) ==
    Cardinality({cell \in cells : top_color(self.board[cell[1]][cell[2]]) = color})

HeuristicSum(self) ==
    3 * (TopCells(self, White, DiagonalCells) - TopCells(self, Black, DiagonalCells))
    + 2 * (TopCells(self, White, Cells \ DiagonalCells)
           - TopCells(self, Black, Cells \ DiagonalCells))

\* C18: raw_score returns the win-marker of the side that just moved,
\* other(turn), if and only if some row, column or diagonal shows that
\* side's colour on top of every cell; otherwise it returns Balanced(s), s
\* the weighted sum over the top colours, and |s| <= 40.
C18_StaticEvaluation ==
    evalScore # NoScore =>
        LET mover == other(evalPos.turn)
        IN  /\ evalScore = for_color(mover) <=> HasLine(evalPos, mover)
            /\ IsWinMarker(evalScore) => evalScore = for_color(mover)
            /\ ~HasLine(evalPos, mover) =>
                  /\ evalScore = Balanced(HeuristicSum(evalPos))
                  /\ evalScore.n \in -40 .. 40

\* C18's case: every cell shows the colour of the side to move, so no line
\* of the side that just moved exists and the sum is at its bound.
C18_Witness ==
    /\ evalScore # NoScore
    /\ HasLine(evalPos, evalPos.turn)
    /\ ~HasLine(evalPos, other(evalPos.turn))
    /\ evalScore = Balanced(40)

\* C19: every Move{source, dest} that branch() returns relocates a piece of
\* the side to move: the top colour of the source stack in the parent
\* Position is the parent's turn.
C19_MovesOwnPiece ==
    (ply > 0 /\ lastMove.kind = "Move") =>
        top_color(parent.board[lastMove.source[1]][lastMove.source[2]]) = parent.turn

\* The slots of a board, and how many hold a piece of a colour.
Slots == Cells \X Sizes

SlotOf(self, slot) == self.board[slot[1][1]][slot[1][2]][slot[2]]

PiecesOf(self, color) ==
    Cardinality({slot \in Slots : SlotOf(self, slot) = color})

====
